---- MODULE Spec2Model ----
(***************************************************************************)
(* The FUOTA deployment store of lora-app-server                           *)
(* (internal/storage/fuota_deployment.go): the tables fuota_deployment and *)
(* fuota_deployment_device, the store operations on them, and the workers  *)
(* that call these operations on a database handle (every statement        *)
(* commits by itself) or inside a transaction (row locks and uncommitted   *)
(* row versions are kept until the transaction ends).                      *)
(***************************************************************************)
EXTENDS Integers, Sequences, FiniteSets, TLC

\* ------------------------------------------------------------------ bounds
NumWorkers == 2      \* concurrent callers of the store
MaxDeps    == 2      \* identifiers uuid.NewV4 hands out in one behaviour
MaxTime    == 1      \* the clock runs from 0 to MaxTime
MaxBatch   == 2      \* largest batchSize passed to GetPendingFUOTADeployments
NumDevices == 1      \* rows of the device table
RetryCeiling == 2    \* consecutive failed steps after which a deployment ends
MaxLinked  == 1      \* deployments with a multicast group the scheduler runs

Workers  == 1..NumWorkers
DepIds   == 1..MaxDeps
Times    == 0..MaxTime
DevEUIs  == 1..NumDevices

\* ------------------------------------------------------- types of the code
FUOTADeploymentMulticastSetup         == "MC_SETUP"
FUOTADeploymentFragmentationSessSetup == "FRAG_SESS_SETUP"
FUOTADeploymentMulticastSessCSetup    == "MC_SESS_C_SETUP"
FUOTADeploymentEnqueue                == "ENQUEUE"
FUOTADeploymentWaitingTx              == "WAITING_TX"
FUOTADeploymentTransmitted            == "TRANSMITTED"
FUOTADeploymentStatusRequested        == "STATUS_REQUESTED"
FUOTADeploymentDone                   == "DONE"

FUOTADeploymentState ==
    << FUOTADeploymentMulticastSetup, FUOTADeploymentFragmentationSessSetup,
       FUOTADeploymentMulticastSessCSetup, FUOTADeploymentEnqueue,
       FUOTADeploymentWaitingTx, FUOTADeploymentTransmitted,
       FUOTADeploymentStatusRequested, FUOTADeploymentDone >>

\* the place of a state in the order of the states
StateIndex(state) ==
    CHOOSE i \in 1..Len(FUOTADeploymentState) : FUOTADeploymentState[i] = state

FUOTADeploymentDevicePending == "PENDING"
FUOTADeploymentDeviceSuccess == "SUCCESS"
FUOTADeploymentDeviceError   == "ERROR"

FUOTADeploymentDeviceState ==
    { FUOTADeploymentDevicePending, FUOTADeploymentDeviceSuccess,
      FUOTADeploymentDeviceError }

\* a nil *uuid.UUID / a NULL column (group identifiers are 1, 2, ...)
NULL   == 0
NoErr  == "nil"
ErrDoesNotExist == "ErrDoesNotExist"
ErrInsert       == "insert error"
ErrScan         == "scan error"

\* The values callers put in a FUOTADeployment before Create / Update.
\* The state "" is the zero value of FUOTADeploymentState.
MulticastGroups == { 1 }
CreateStates == { "", FUOTADeploymentDone }
UpdateStates == { FUOTADeploymentFragmentationSessSetup, FUOTADeploymentDone }
InParams ==
    { [ Name |-> "test deployment", FragmentationMatrix |-> 3,
        Descriptor |-> << 1, 2, 3, 4 >>, Payload |-> << 5, 6, 7, 8 >>,
        UnicastTimeout |-> 60, FragSize |-> 10, Redundancy |-> 20,
        BlockAckDelay |-> 6, MulticastTimeout |-> 3 ] }

\* FUOTADeployment structs the callers pass (ID and timestamps are set by the
\* operations).
FUOTADeployment ==
    { [ Name |-> p.Name, MulticastGroupID |-> mg,
        FragmentationMatrix |-> p.FragmentationMatrix,
        Descriptor |-> p.Descriptor, Payload |-> p.Payload,
        FragSize |-> p.FragSize, Redundancy |-> p.Redundancy,
        BlockAckDelay |-> p.BlockAckDelay,
        MulticastTimeout |-> p.MulticastTimeout, State |-> st,
        UnicastTimeout |-> p.UnicastTimeout, NextStepAfter |-> t ] :
      p \in InParams, mg \in MulticastGroups \cup { NULL },
      st \in CreateStates \cup UpdateStates, t \in Times }

\* the values the test writes with its update
UpdatedParams ==
    [ Name |-> "updated deployment", FragmentationMatrix |-> 2,
      Descriptor |-> << 4, 3, 2, 1 >>, Payload |-> << 1, 2, 1, 2 >>,
      UnicastTimeout |-> 120, FragSize |-> 20, Redundancy |-> 30,
      BlockAckDelay |-> 7, MulticastTimeout |-> 4 ]

\* the device table: every DevEUI is a registered device; a name is modelled
\* by its place in the order of the names
DeviceName(eui) == eui

\* ------------------------------------------------------------------- state
VARIABLES
    now,                     \* time.Now()
    nextID,                  \* the next identifier uuid.NewV4 returns
    fuota_deployment,        \* committed rows: a function id -> row
    fuota_deployment_device, \* committed participation rows
    txn,                     \* per worker: "none" | "open" | "aborted"
    txDep,                   \* per worker: its uncommitted row versions
    txDev,                   \* per worker: its uncommitted participation rows
    locks,                   \* per worker: rows its transaction has locked
    read,                    \* per worker, per id: the committed version
                             \* its copy in memory derives from (basis) and
                             \* whether it was read under a lock its
                             \* transaction still holds
    txBase,                  \* per worker, per id: the read its uncommitted
                             \* update was computed from
    persisted,               \* the updates the last persisting step has
                             \* persisted: [id, w, basis, locked]
    ret,                     \* the call that led to this state and its
                             \* result, if it is a call the behaviour records
    retries,                 \* per deployment: the consecutive failed steps
                             \* the scheduler has counted
    mode                     \* what a behaviour records besides the store:
                             \* calls and their results in ret ("claims",
                             \* "creates", "gets", "cycles"), or the
                             \* provenance of the updates in read, txBase
                             \* and persisted ("versions"); it never changes

vars == << now, nextID, fuota_deployment, fuota_deployment_device, txn, txDep,
           txDev, locks, read, txBase, persisted, ret, retries, mode >>

\* tables are functions from the identifiers of their rows
NoRows  == << >>
Put(table, id, row) ==
    [ i \in DOMAIN table \cup { id } |-> IF i = id THEN row ELSE table[i] ]
Overlay(table, over) ==
    [ i \in DOMAIN table \cup DOMAIN over |->
        IF i \in DOMAIN over THEN over[i] ELSE table[i] ]

\* The basis of a copy: "none" (no copy), "cur" (the committed version),
\* "dup" (a version another worker's persisted update was computed from),
\* "stale" (a version replaced otherwise).
NoRead  == [ basis |-> "none", locked |-> FALSE ]
NoReads == [ id \in DepIds |-> NoRead ]
NoCall  == [ w |-> 0, op |-> "none", err |-> NoErr, out |-> {}, ids |-> {},
             at |-> 0, id |-> 0, arg |-> 0, state |-> "", forUpdate |-> FALSE ]

InitStore ==
    /\ now = 0
    /\ nextID = 1
    /\ fuota_deployment = NoRows
    /\ fuota_deployment_device = {}
    /\ txn = [ w \in Workers |-> "none" ]
    /\ txDep = [ w \in Workers |-> NoRows ]
    /\ txDev = [ w \in Workers |-> {} ]
    /\ locks = [ w \in Workers |-> {} ]
    /\ read = [ w \in Workers |-> NoReads ]
    /\ txBase = [ w \in Workers |-> NoReads ]
    /\ persisted = {}
    /\ ret = NoCall
    /\ retries = [ id \in DepIds |-> 0 ]

Init == InitStore /\ mode = "claims"
InitCreate == InitStore /\ mode = "creates"
InitVersions == InitStore /\ mode = "versions"
InitGet == InitStore /\ mode = "gets"
InitPipeline == InitStore /\ mode = "cycles"

\* the calls a behaviour records
Recorded ==
    CASE mode = "claims"  -> { "GetPending", "Rollback" }
      [] mode = "creates" -> { "Create" }
      [] mode = "gets"    -> { "Get", "Update" }
      [] mode = "cycles"  -> { "Cycle", "RecordOutcome" }
      [] OTHER            -> { }

\* the copies in memory are recorded in the behaviours that record versions
Tracked(old, new) == IF mode = "versions" THEN new ELSE old

\* ------------------------------------------------------ the store's views
\* What a statement of worker w sees: the committed rows, overlaid with the
\* uncommitted versions of w's own transaction.
View(w) == Overlay(fuota_deployment, txDep[w])

ViewDev(w) == fuota_deployment_device \cup txDev[w]

\* (no lock is ever seen: a store without row locks)
NotLocked(w, id) == FALSE

\* a row lock held by a transaction other than w's
LockedByOther(w, id) == \E u \in Workers \ { w } : id \in locks[u]

\* ------------------------------------------------------------ conversions
\* []byte{fd.FragmentationMatrix} and fd.Descriptor[:] as written to the row
EncodeFragmentationMatrix(fm) == << fm >>
\* (a descriptor written one byte short)
EncodeDescriptorShort(d) == SubSeq(d, 1, 3)
EncodeDescriptor(d) == SubSeq(d, 1, 4)

\* the row a FUOTADeployment is written as
ToRow(fd, id, createdAt, updatedAt) ==
    [ id |-> id, created_at |-> createdAt, updated_at |-> updatedAt,
      name |-> fd.Name, multicast_group_id |-> fd.MulticastGroupID,
      fragmentation_matrix |-> EncodeFragmentationMatrix(fd.FragmentationMatrix),
      descriptor |-> EncodeDescriptor(fd.Descriptor),
      payload |-> fd.Payload, state |-> fd.State,
      next_step_after |-> fd.NextStepAfter,
      unicast_timeout |-> fd.UnicastTimeout, frag_size |-> fd.FragSize,
      redundancy |-> fd.Redundancy, block_ack_delay |-> fd.BlockAckDelay,
      multicast_timeout |-> fd.MulticastTimeout ]

\* scanFUOTADeployment: the error, then the struct
ScanError(row) ==
    IF Len(row.fragmentation_matrix) # 1 THEN ErrScan
    ELSE IF Len(row.descriptor) # 4 THEN ErrScan
    ELSE NoErr

scanFUOTADeployment(row) ==
    [ ID |-> row.id, CreatedAt |-> row.created_at,
      UpdatedAt |-> row.updated_at, Name |-> row.name,
      MulticastGroupID |-> row.multicast_group_id,
      FragmentationMatrix |-> row.fragmentation_matrix[1],
      Descriptor |-> row.descriptor, Payload |-> row.payload,
      FragSize |-> row.frag_size, Redundancy |-> row.redundancy,
      BlockAckDelay |-> row.block_ack_delay,
      MulticastTimeout |-> row.multicast_timeout, State |-> row.state,
      UnicastTimeout |-> row.unicast_timeout,
      NextStepAfter |-> row.next_step_after ]

\* ------------------------------------------------------------------ clock
Tick ==
    /\ now < MaxTime
    /\ now' = now + 1
    /\ ret' = NoCall
    /\ UNCHANGED << mode, retries, nextID, fuota_deployment,
                    fuota_deployment_device, txn, txDep, txDev, locks, read,
                    txBase, persisted >>

\* ------------------------------------------------------------ transactions
\* the record of a call: who, what, its arguments, the error and the
\* values returned
Result(w, op, err, id, arg, out, ids) ==
    IF op \in Recorded
    THEN [ w |-> w, op |-> op, err |-> err, out |-> out, ids |-> ids,
           at |-> now, id |-> id, arg |-> arg, state |-> "",
           forUpdate |-> FALSE ]
    ELSE NoCall

WithForUpdate(r, forUpdate) ==
    IF r.op \in Recorded THEN [ r EXCEPT !.forUpdate = forUpdate ] ELSE r

\* the State of the struct a caller has passed
WithState(r, state) ==
    IF r.op \in Recorded THEN [ r EXCEPT !.state = state ] ELSE r

Begin(w) ==
    /\ txn[w] = "none"
    /\ txn' = [ txn EXCEPT ![w] = "open" ]
    /\ ret' = Result(w, "Begin", NoErr, 0, 0, {}, {})
    /\ UNCHANGED << mode, retries, now, nextID, fuota_deployment,
                    fuota_deployment_device, txDep, txDev, locks, read,
                    txBase, persisted >>

\* The copies in memory once w has persisted new versions of the rows ids,
\* basisOf[id] the basis each was computed from: w holds the new versions;
\* the copies other workers hold of the replaced versions are out of date.
Supersede(w, ids, basisOf) ==
    Tracked(read,
    [ u \in Workers |->
        [ id \in DepIds |->
            IF id \notin ids THEN [ read[u][id] EXCEPT !.locked = @ /\ u # w ]
            ELSE IF u = w THEN [ basis |-> "cur", locked |-> FALSE ]
            ELSE IF read[u][id].basis = "cur"
                 THEN [ read[u][id] EXCEPT
                          !.basis = IF basisOf[id] = "cur" THEN "dup" ELSE "stale" ]
                 ELSE read[u][id] ] ])

\* the copies of w once its transaction has ended without a commit: none is
\* under a lock any more, and what it wrote derives from what it had read
ReadsAfterRollback(w) ==
    Tracked(read[w],
    [ id \in DepIds |->
        IF id \in DOMAIN txDep[w]
        THEN IF id \in DOMAIN fuota_deployment
             THEN [ txBase[w][id] EXCEPT !.locked = FALSE ]
             ELSE NoRead
        ELSE [ read[w][id] EXCEPT !.locked = FALSE ] ])

\* the updates a commit of w persists, with the read each was computed from
Persisted(w) ==
    { [ id |-> id, w |-> w, basis |-> txBase[w][id].basis,
        locked |-> txBase[w][id].locked ] :
      id \in { i \in DOMAIN txDep[w] : txBase[w][i].basis # "none" } }

EndTx(w, op) ==
    /\ txn' = [ txn EXCEPT ![w] = "none" ]
    /\ txDep' = [ txDep EXCEPT ![w] = NoRows ]
    /\ txDev' = [ txDev EXCEPT ![w] = {} ]
    /\ locks' = [ locks EXCEPT ![w] = {} ]
    /\ txBase' = [ txBase EXCEPT ![w] = NoReads ]
    /\ ret' = Result(w, op, NoErr, 0, 0, {}, locks[w])

Commit(w) ==
    /\ txn[w] = "open"
    /\ fuota_deployment' = View(w)
    /\ fuota_deployment_device' = ViewDev(w)
    /\ persisted' = IF Persisted(w) = {} THEN persisted ELSE Persisted(w)
    /\ read' = Supersede(w, DOMAIN txDep[w],
                         [ id \in DOMAIN txDep[w] |-> txBase[w][id].basis ])
    /\ EndTx(w, "Commit")
    /\ UNCHANGED << mode, retries, now, nextID >>

\* the end of a transaction that does not commit: a rollback, a killed
\* worker, or the commit of a transaction a failed statement has aborted
Rollback(w) ==
    /\ txn[w] \in { "open", "aborted" }
    /\ read' = [ read EXCEPT ![w] = ReadsAfterRollback(w) ]
    /\ EndTx(w, "Rollback")
    /\ UNCHANGED << mode, retries, now, nextID, fuota_deployment,
                    fuota_deployment_device, persisted >>

\* -------------------------------------------------------- store operations
Callable(w) == txn[w] \in { "none", "open" }
InTx(w) == txn[w] = "open"

\* a failed statement aborts the transaction it runs in
AfterError(w) == IF InTx(w) THEN [ txn EXCEPT ![w] = "aborted" ] ELSE txn

\* (the state passed is dropped)
InitialStateOverwrite(fd) == FUOTADeploymentMulticastSetup

\* the state a new deployment is inserted with
InitialState(fd) ==
    IF fd.State = "" THEN FUOTADeploymentMulticastSetup ELSE fd.State

\* the participation row CreateFUOTADeploymentForDevice inserts
NewDeviceRow(id, devEUI) ==
    [ fuota_deployment_id |-> id, dev_eui |-> devEUI, created_at |-> now,
      updated_at |-> now, state |-> FUOTADeploymentDevicePending,
      error_message |-> "" ]

\* the row to insert goes to the transaction of w, or straight to the table
InsertDeployment(w, row) ==
    IF InTx(w)
    THEN /\ txDep' = [ txDep EXCEPT ![w] = Put(@, row.id, row) ]
         /\ locks' = [ locks EXCEPT ![w] = @ \cup { row.id } ]
         /\ UNCHANGED << fuota_deployment, read >>
    ELSE /\ fuota_deployment' = Put(fuota_deployment, row.id, row)
         /\ read' = [ read EXCEPT ![w][row.id] =
                        Tracked(@, [ basis |-> "cur", locked |-> FALSE ]) ]
         /\ UNCHANGED << txDep, locks >>

InsertDevice(w, dev) ==
    IF InTx(w)
    THEN /\ txDev' = [ txDev EXCEPT ![w] = @ \cup { dev } ]
         /\ UNCHANGED fuota_deployment_device
    ELSE /\ fuota_deployment_device' = fuota_deployment_device \cup { dev }
         /\ UNCHANGED txDev

CreateFailures == { "none", "uuid", "deployment", "device" }

\* the structs callers pass to CreateFUOTADeploymentForDevice (the function
\* overwrites NextStepAfter)
CreateInputs ==
    { fd \in FUOTADeployment : fd.State \in CreateStates /\ fd.NextStepAfter = 0 }

\* CreateFUOTADeploymentForDevice(db, fd, devEUI); fail names the call of
\* the function that returns an error, if any
CreateFUOTADeploymentForDevice(w, fd, devEUI, fail) ==
    LET id  == nextID
        row == ToRow([ fd EXCEPT !.State = InitialState(fd),
                                 !.NextStepAfter = now ], id, now, now)
    IN  /\ Callable(w)
        /\ nextID <= MaxDeps
        /\ CASE fail = "uuid" ->
                  /\ ret' = WithState(Result(w, "Create", "new uuid error", 0,
                                             devEUI, {}, {}), fd.State)
                  /\ UNCHANGED << nextID, fuota_deployment,
                                  fuota_deployment_device, txn, txDep, txDev,
                                  locks, read >>
             [] fail = "deployment" ->
                  /\ txn' = AfterError(w)
                  /\ ret' = WithState(Result(w, "Create", ErrInsert, id,
                                             devEUI, {}, {}), fd.State)
                  /\ UNCHANGED << nextID, fuota_deployment, fuota_deployment_device,
                                  txDep, txDev, locks, read >>
             [] fail = "device" ->
                  /\ nextID' = nextID + 1
                  /\ InsertDeployment(w, row)
                  /\ txn' = AfterError(w)
                  /\ ret' = WithState(Result(w, "Create", ErrInsert, id,
                                             devEUI, {}, {}), fd.State)
                  /\ UNCHANGED << fuota_deployment_device, txDev >>
             [] fail = "none" ->
                  /\ nextID' = nextID + 1
                  /\ InsertDeployment(w, row)
                  /\ InsertDevice(w, NewDeviceRow(id, devEUI))
                  /\ ret' = WithState(Result(w, "Create", NoErr, id, devEUI,
                                             { scanFUOTADeployment(row) },
                                             { id }), fd.State)
                  /\ UNCHANGED txn
        /\ UNCHANGED << mode, retries, now, txBase, persisted >>

\* the copy w holds of row id after reading it: a row w's transaction has
\* written is no committed version, the basis stays what it was
ReadOf(w, id, lockedNow) ==
    IF id \in DOMAIN txDep[w] THEN read[w][id]
    ELSE Tracked(read[w][id], [ basis |-> "cur", locked |-> lockedNow ])

\* GetFUOTADeployment(db, id, forUpdate): "for update" waits for the row
\* lock of another transaction and keeps the lock until w's transaction ends
GetFUOTADeployment(w, id, forUpdate) ==
    /\ Callable(w)
    /\ IF id \notin DOMAIN View(w)
       THEN /\ ret' = WithForUpdate(
                        Result(w, "Get", ErrDoesNotExist, id, 0, {}, {}),
                        forUpdate)
            /\ UNCHANGED << locks, read >>
       ELSE /\ forUpdate => ~LockedByOther(w, id)
            /\ locks' = IF forUpdate /\ InTx(w)
                        THEN [ locks EXCEPT ![w] = @ \cup { id } ]
                        ELSE locks
            /\ IF ScanError(View(w)[id]) # NoErr
               THEN /\ ret' = WithForUpdate(
                                Result(w, "Get", ScanError(View(w)[id]), id, 0,
                                       {}, {}),
                                forUpdate)
                    /\ UNCHANGED read
               ELSE /\ ret' = WithForUpdate(
                                Result(w, "Get", NoErr, id, 0,
                                       { scanFUOTADeployment(View(w)[id]) },
                                       { id }),
                                forUpdate)
                    /\ read' = [ read EXCEPT ![w][id] =
                                   ReadOf(w, id, InTx(w) /\ id \in locks'[w]) ]
    /\ UNCHANGED << mode, retries, now, nextID, fuota_deployment,
                    fuota_deployment_device, txn, txDep, txDev, txBase,
                    persisted >>

\* (where clauses with one condition missing)
IsPendingAnyGroup(row, t) ==
    row.state # FUOTADeploymentDone /\ row.next_step_after <= t
IsPendingAnyState(row, t) ==
    row.next_step_after <= t /\ row.multicast_group_id # NULL
IsPendingAnyTime(row, t) ==
    row.state # FUOTADeploymentDone /\ row.multicast_group_id # NULL

\* the where clause of GetPendingFUOTADeployments, at time t
IsPending(row, t) ==
    /\ row.state # FUOTADeploymentDone
    /\ row.next_step_after <= t
    /\ row.multicast_group_id # NULL

\* ("for update" without "skip locked", on a store that does not wait)
NoSkipLocked(w, ids) == ids

\* "for update skip locked": the rows of ids no other transaction has locked
SkipLocked(w, ids) == { id \in ids : ~LockedByOther(w, id) }

Min(a, b) == IF a < b THEN a ELSE b

\* "limit": the results a query over the rows ids can produce (no order by:
\* any batchSize of them)
Limit(ids, batchSize) ==
    { S \in SUBSET ids : Cardinality(S) = Min(batchSize, Cardinality(ids)) }

\* (the limit applied before the locked rows are skipped)
PendingBatchesLimitFirst(w, batchSize) ==
    { SkipLocked(w, S) :
        S \in Limit({ id \in DOMAIN View(w) : IsPending(View(w)[id], now) },
                    batchSize) }

\* the batches GetPendingFUOTADeployments(db, batchSize) can return to w
PendingBatches(w, batchSize) ==
    Limit(SkipLocked(w, { id \in DOMAIN View(w) : IsPending(View(w)[id], now) }),
          batchSize)

\* GetPendingFUOTADeployments(db, batchSize)
GetPendingFUOTADeployments(w, batchSize) ==
    /\ Callable(w)
    /\ \E S \in PendingBatches(w, batchSize) :
         /\ locks' = IF InTx(w) THEN [ locks EXCEPT ![w] = @ \cup S ] ELSE locks
         /\ IF \E id \in S : ScanError(View(w)[id]) # NoErr
            THEN /\ ret' = Result(w, "GetPending", ErrScan, 0, batchSize, {}, {})
                 /\ UNCHANGED read
            ELSE /\ ret' = Result(w, "GetPending", NoErr, 0, batchSize,
                                  { scanFUOTADeployment(View(w)[id]) : id \in S },
                                  S)
                 /\ read' = [ read EXCEPT ![w] =
                                [ id \in DepIds |->
                                    IF id \in S THEN ReadOf(w, id, InTx(w))
                                    ELSE @[id] ] ]
    /\ UNCHANGED << mode, retries, now, nextID, fuota_deployment,
                    fuota_deployment_device, txn, txDep, txDev, txBase,
                    persisted >>

\* the structs callers pass to UpdateFUOTADeployment
\* (a step done: the next state, due after a delay; or the last step done)
UpdateInputs ==
    { fd \in FUOTADeployment :
        /\ fd.MulticastGroupID # NULL
        /\ \/ /\ fd.State = FUOTADeploymentFragmentationSessSetup
              /\ fd.NextStepAfter = MaxTime
           \/ /\ fd.State = FUOTADeploymentDone
              /\ fd.NextStepAfter = 0 }

\* (the update runs on the database handle, whatever the caller passed)
StoreUpdateDirect(w, id, row) ==
    /\ fuota_deployment' = Put(fuota_deployment, id, row)
    /\ persisted' = IF read[w][id].basis = "none" THEN persisted
                    ELSE { [ id |-> id, w |-> w, basis |-> read[w][id].basis,
                             locked |-> FALSE ] }
    /\ read' = Supersede(w, { id }, [ i \in { id } |-> read[w][id].basis ])
    /\ UNCHANGED << txDep, locks, txBase >>

\* the updated row goes to the transaction of w, which locks it, or
\* straight to the table
StoreUpdate(w, id, row) ==
    IF InTx(w)
    THEN /\ txDep' = [ txDep EXCEPT ![w] = Put(@, id, row) ]
         /\ locks' = [ locks EXCEPT ![w] = @ \cup { id } ]
         /\ txBase' = IF id \in DOMAIN txDep[w] THEN txBase
                      ELSE [ txBase EXCEPT ![w][id] = read[w][id] ]
         /\ UNCHANGED << fuota_deployment, read, persisted >>
    ELSE /\ fuota_deployment' = Put(fuota_deployment, id, row)
         /\ persisted' = IF read[w][id].basis = "none" THEN persisted
                         ELSE { [ id |-> id, w |-> w,
                                  basis |-> read[w][id].basis,
                                  locked |-> FALSE ] }
         /\ read' = Supersede(w, { id }, [ i \in { id } |-> read[w][id].basis ])
         /\ UNCHANGED << txDep, locks, txBase >>

\* (an update that inserts the row it does not find)
UpdateFUOTADeploymentUpsert(w, id, fd) ==
    /\ Callable(w)
    /\ LET row == ToRow(fd, id,
                        IF id \in DOMAIN View(w) THEN View(w)[id].created_at
                        ELSE now, now)
       IN  /\ ~LockedByOther(w, id)
           /\ StoreUpdate(w, id, row)
           /\ ret' = WithState(Result(w, "Update", NoErr, id, 0,
                                      { scanFUOTADeployment(row) }, { id }),
                               fd.State)
    /\ UNCHANGED << mode, retries, now, nextID, fuota_deployment_device, txn,
                    txDev >>

\* UpdateFUOTADeployment(db, fd) with fd.ID = id: the update waits for the
\* row lock of another transaction; no row with this id: ErrDoesNotExist
UpdateFUOTADeployment(w, id, fd) ==
    /\ Callable(w)
    /\ IF id \notin DOMAIN View(w)
       THEN /\ ret' = WithState(Result(w, "Update", ErrDoesNotExist, id, 0,
                                       {}, {}), fd.State)
            /\ UNCHANGED << fuota_deployment, txDep, locks, read, txBase,
                            persisted >>
       ELSE LET row == ToRow(fd, id, View(w)[id].created_at, now)
            IN  /\ ~LockedByOther(w, id)
                /\ StoreUpdate(w, id, row)
                /\ ret' = WithState(Result(w, "Update", NoErr, id, 0,
                                           { scanFUOTADeployment(row) }, { id }),
                                    fd.State)
    /\ UNCHANGED << mode, retries, now, nextID, fuota_deployment_device, txn,
                    txDev >>

\* (the count without its where clause)
CountAllDevices(w, id) == Cardinality(ViewDev(w))

\* GetFUOTADeploymentDeviceCount(db, fuotaDeploymentID)
GetFUOTADeploymentDeviceCount(w, id) ==
    Cardinality({ dd \in ViewDev(w) : dd.fuota_deployment_id = id })

\* the rows of a set in the order of their device names
RECURSIVE OrderByName(_)
OrderByName(rows) ==
    IF rows = {} THEN << >>
    ELSE LET first == CHOOSE r \in rows :
                        \A q \in rows : DeviceName(r.dev_eui) <= DeviceName(q.dev_eui)
         IN  << first >> \o OrderByName(rows \ { first })

\* GetFUOTADeploymentDevices(db, fuotaDeploymentID, limit, offset)
GetFUOTADeploymentDevices(w, id, limit, offset) ==
    LET joined == { [ created_at |-> dd.created_at, updated_at |-> dd.updated_at,
                      fuota_deployment_id |-> dd.fuota_deployment_id,
                      dev_eui |-> dd.dev_eui,
                      device_name |-> DeviceName(dd.dev_eui),
                      state |-> dd.state, error_message |-> dd.error_message ] :
                    dd \in { x \in ViewDev(w) : x.fuota_deployment_id = id } }
        sorted == OrderByName(joined)
    IN  SubSeq(sorted, offset + 1, Min(offset + limit, Len(sorted)))

\* ---------------------------------------------------------- specifications
Transactions ==
    \/ \E w \in Workers : Begin(w)
    \/ \E w \in Workers : Commit(w)
    \/ \E w \in Workers : Rollback(w)

Reads ==
    \/ \E w \in Workers, id \in DepIds, forUpdate \in BOOLEAN :
          GetFUOTADeployment(w, id, forUpdate)
    \/ \E w \in Workers, batchSize \in 0..MaxBatch :
          GetPendingFUOTADeployments(w, batchSize)

Updates ==
    \E w \in Workers, id \in DepIds, fd \in UpdateInputs :
        UpdateFUOTADeployment(w, id, fd)

\* creations that succeed, in the initial state
Creates ==
    \E w \in Workers, fd \in CreateInputs, devEUI \in DevEUIs :
        /\ fd.State = ""
        /\ CreateFUOTADeploymentForDevice(w, fd, devEUI, "none")

\* creations with every state a caller can pass and every failure
CreatesAndFailures ==
    \E w \in Workers, fd \in CreateInputs, devEUI \in DevEUIs,
       fail \in CreateFailures :
        CreateFUOTADeploymentForDevice(w, fd, devEUI, fail)

\* The workers of the scheduler and the callers that create deployments;
\* the calls of GetPendingFUOTADeployments are recorded.
Next == Tick \/ Transactions \/ Creates \/ Reads \/ Updates
Spec == Init /\ [][Next]_vars

\* The same with every way a creation can go; the calls of
\* CreateFUOTADeploymentForDevice are recorded.
NextCreate == Tick \/ Transactions \/ CreatesAndFailures \/ Reads \/ Updates
SpecCreate == InitCreate /\ [][NextCreate]_vars

\* The provenance of the persisted updates is recorded. It depends neither
\* on the clock, which stands still, nor on what the rows hold: every
\* deployment has its multicast group, and an update leaves it due.
VersionCreates ==
    \E w \in Workers, fd \in CreateInputs, devEUI \in DevEUIs :
        /\ fd.State = "" /\ fd.MulticastGroupID # NULL
        /\ CreateFUOTADeploymentForDevice(w, fd, devEUI, "none")

VersionUpdates ==
    \E w \in Workers, id \in DepIds, fd \in FUOTADeployment :
        /\ fd.State = FUOTADeploymentFragmentationSessSetup
        /\ fd.MulticastGroupID # NULL /\ fd.NextStepAfter = 0
        /\ UpdateFUOTADeployment(w, id, fd)

NextVersions == Transactions \/ VersionCreates \/ Reads \/ VersionUpdates
SpecVersions == InitVersions /\ [][NextVersions]_vars

\* The calls of GetFUOTADeployment and UpdateFUOTADeployment are recorded;
\* the updates write the values of the test, for a group or for none.
UpdatedInputs ==
    { [ Name |-> UpdatedParams.Name, MulticastGroupID |-> mg,
        FragmentationMatrix |-> UpdatedParams.FragmentationMatrix,
        Descriptor |-> UpdatedParams.Descriptor,
        Payload |-> UpdatedParams.Payload,
        FragSize |-> UpdatedParams.FragSize,
        Redundancy |-> UpdatedParams.Redundancy,
        BlockAckDelay |-> UpdatedParams.BlockAckDelay,
        MulticastTimeout |-> UpdatedParams.MulticastTimeout,
        State |-> FUOTADeploymentDone,
        UnicastTimeout |-> UpdatedParams.UnicastTimeout,
        NextStepAfter |-> MaxTime ] :
      mg \in MulticastGroups \cup { NULL } }

GetUpdates ==
    \E w \in Workers, id \in DepIds, fd \in UpdatedInputs :
        UpdateFUOTADeployment(w, id, fd)

NextGet == Tick \/ Transactions \/ Creates \/ Reads \/ GetUpdates
SpecGet == InitGet /\ [][NextGet]_vars

\* A persisted row whose fixed-width fields have the wrong length, as
\* scanFUOTADeployment expects to meet: no operation of the store writes
\* one, a writer outside it does, on a row no transaction has locked.
MalformedFields == { "fragmentation_matrix", "descriptor" }

Malformed(id, field) ==
    /\ id \in DOMAIN fuota_deployment
    /\ ScanError(fuota_deployment[id]) = NoErr
    /\ \A w \in Workers : id \notin locks[w] /\ id \notin DOMAIN txDep[w]
    /\ fuota_deployment' =
         IF field = "descriptor"
         THEN [ fuota_deployment EXCEPT ![id].descriptor = SubSeq(@, 1, 3) ]
         ELSE [ fuota_deployment EXCEPT ![id].fragmentation_matrix = << >> ]
    /\ ret' = NoCall
    /\ UNCHANGED << mode, retries, now, nextID, fuota_deployment_device, txn,
                    txDep, txDev, locks, read, txBase, persisted >>

\* The scheduler's reads over a store that can hold malformed rows; every
\* deployment has its multicast group and is due from its creation on.
Malforms ==
    \E id \in DepIds, field \in MalformedFields : Malformed(id, field)

NextIntegrity == Transactions \/ VersionCreates \/ Reads \/ Malforms
SpecIntegrity == Init /\ [][NextIntegrity]_vars

\* -------------------------------------------------- the scheduler's cycle
\* The state machine, the step executor and the participation tracker work
\* on the store from outside this file; they are modelled as the design
\* describes them (sections 4.1, 4.3, 4.4 and 5).

\* Execute(deployment) -> outcome
Outcomes == { "advance", "retry", "fatal" }

ErrAlreadyTerminal == "already terminal"

\* a participation record without a terminal outcome
\* (every record counts as one)
IsOutstandingAlways(dd) == TRUE
IsOutstanding(dd) == dd.state = FUOTADeploymentDevicePending

\* the outcomes a caller records, with their messages
DeviceOutcomes ==
    { [ state |-> FUOTADeploymentDeviceSuccess, message |-> "" ],
      [ state |-> FUOTADeploymentDeviceError, message |-> "rejected" ] }

\* RecordOutcome(deploymentID, deviceID, outcome, message): sets the
\* terminal state of a record once; a later call reports the record as
\* already terminal and changes nothing
RecordOutcome(id, devEUI, outcome, message) ==
    LET rows == { dd \in fuota_deployment_device :
                    dd.fuota_deployment_id = id /\ dd.dev_eui = devEUI }
    IN  /\ IF \E dd \in rows : IsOutstanding(dd)
           THEN /\ fuota_deployment_device' =
                     { IF dd \in rows
                       THEN [ dd EXCEPT !.state = outcome,
                                        !.error_message = message,
                                        !.updated_at = now ]
                       ELSE dd : dd \in fuota_deployment_device }
                /\ ret' = Result(0, "RecordOutcome", NoErr, id, devEUI, {}, {})
           ELSE /\ UNCHANGED fuota_deployment_device
                /\ ret' = Result(0, "RecordOutcome",
                                 IF rows = {} THEN ErrDoesNotExist
                                 ELSE ErrAlreadyTerminal, id, devEUI, {}, {})
        /\ UNCHANGED << mode, retries, now, nextID, fuota_deployment, txn,
                        txDep, txDev, locks, read, txBase, persisted >>

\* the outstanding records of the deployments ids, marked error
MarkOutstanding(devs, ids) ==
    { IF dd.fuota_deployment_id \in ids /\ IsOutstanding(dd)
      THEN [ dd EXCEPT !.state = FUOTADeploymentDeviceError,
                       !.error_message = "timeout", !.updated_at = now ]
      ELSE dd : dd \in devs }

\* the state after state in the required order
NextState(state) == FUOTADeploymentState[StateIndex(state) + 1]

\* (a retry that is due at once)
BackoffNone(t) == t
\* the next-eligible-time of a retry at time t: a fixed delay
Backoff(t) == t + 1

\* a step that ends the deployment: a terminal failure, or a failed step
\* that reaches the retry ceiling after n consecutive failed steps
ForcedDone(n, outcome) ==
    outcome = "fatal" \/ ( outcome = "retry" /\ n + 1 >= RetryCeiling )

\* the transition contract: the deployment as persisted after a step with
\* this outcome, taken at time t after n consecutive failed steps
Transition(fd, n, outcome, t) ==
    IF outcome = "advance"
    THEN [ fd EXCEPT !.State = NextState(fd.State), !.NextStepAfter = t ]
    ELSE IF ForcedDone(n, outcome)
    THEN [ fd EXCEPT !.State = FUOTADeploymentDone, !.NextStepAfter = t ]
    ELSE [ fd EXCEPT !.NextStepAfter = Backoff(t) ]

NextRetries(n, outcome) ==
    IF outcome = "retry" /\ ~ForcedDone(n, outcome) THEN n + 1 ELSE 0

\* One cycle of a worker, in one transaction: claim a batch of due
\* deployments, execute the step of each, persist the new state and time,
\* commit. A cycle that claims nothing changes nothing; neither does one
\* whose worker is killed before the commit.
Cycle(w, batchSize) ==
    /\ txn[w] = "none"
    /\ \E S \in PendingBatches(w, batchSize) :
         /\ S # {}
         /\ \E outcome \in [ S -> Outcomes ] :
              LET next == [ id \in S |->
                              Transition(scanFUOTADeployment(fuota_deployment[id]),
                                         retries[id], outcome[id], now) ]
                  done == { id \in S : next[id].State = FUOTADeploymentDone }
              IN  /\ fuota_deployment' =
                       [ id \in DOMAIN fuota_deployment |->
                           IF id \in S
                           THEN ToRow(next[id], id,
                                      fuota_deployment[id].created_at, now)
                           ELSE fuota_deployment[id] ]
                  /\ fuota_deployment_device' =
                       MarkOutstanding(fuota_deployment_device, done)
                  /\ retries' = [ id \in DepIds |->
                                    IF id \in S
                                    THEN NextRetries(retries[id], outcome[id])
                                    ELSE retries[id] ]
                  /\ ret' = Result(w, "Cycle", NoErr, 0, batchSize,
                                   { [ id |-> id, outcome |-> outcome[id] ] :
                                       id \in S }, S)
    /\ UNCHANGED << mode, now, nextID, txn, txDep, txDev, locks, read, txBase,
                    persisted >>

\* time passes while a deployment waits for its next-eligible-time
Elapse ==
    /\ \E id \in DOMAIN fuota_deployment :
         /\ fuota_deployment[id].state # FUOTADeploymentDone
         /\ fuota_deployment[id].multicast_group_id # NULL
         /\ fuota_deployment[id].next_step_after > now
    /\ now' = now + 1
    /\ ret' = NoCall
    /\ UNCHANGED << mode, retries, nextID, fuota_deployment,
                    fuota_deployment_device, txn, txDep, txDev, locks, read,
                    txBase, persisted >>

Cycles == \E w \in Workers, batchSize \in 1..MaxBatch : Cycle(w, batchSize)

RecordOutcomes ==
    \E id \in DepIds, devEUI \in DevEUIs, o \in DeviceOutcomes :
        RecordOutcome(id, devEUI, o.state, o.message)

\* The deployments are created, and the workers of the scheduler are the
\* only ones that change them; the cycles and the recorded outcomes are
\* recorded.
PipelineCreates ==
    \E w \in Workers, fd \in CreateInputs, devEUI \in DevEUIs :
        /\ fd.State = "" /\ fd.MulticastGroupID # NULL
        /\ Cardinality(DOMAIN fuota_deployment) < MaxLinked
        /\ CreateFUOTADeploymentForDevice(w, fd, devEUI, "none")

NextPipeline == PipelineCreates \/ Cycles \/ RecordOutcomes \/ Elapse
SpecPipeline == InitPipeline /\ [][NextPipeline]_vars

\* fair scheduling: every worker keeps running cycles, and time passes
FairPipeline ==
    /\ SpecPipeline
    /\ \A w \in Workers :
         WF_vars(\E batchSize \in 1..MaxBatch : Cycle(w, batchSize))
    /\ WF_vars(Elapse)

\* ------------------------------------------------------------------ claims
\* what the spec calls a deployment eligible for advancement at time t
Launchable(row, t) ==
    /\ row.state # "DONE"
    /\ row.multicast_group_id # NULL
    /\ row.next_step_after <= t

\* the rows worker w sees that are eligible and that no other transaction
\* has locked
Free(w) ==
    { id \in DOMAIN View(w) :
        /\ Launchable(View(w)[id], now)
        /\ \A u \in Workers \ { w } : id \notin locks[u] }

LastIsPending == ret.op = "GetPending"
LastIsCreated == ret.op = "Create" /\ ret.err = NoErr

\* C1: no deployment is held by two transactions at once, and a batch
\* returned by a due-batch selection holds no deployment that the
\* transaction of another worker holds (so two open batches are disjoint).
ExclusiveClaim ==
    /\ \A w1 \in Workers, w2 \in Workers :
         w1 # w2 => locks[w1] \cap locks[w2] = {}
    /\ LastIsPending =>
         /\ \A u \in Workers \ { ret.w } : ret.ids \cap locks[u] = {}
         /\ InTx(ret.w) => ret.ids \subseteq locks[ret.w]

\* a selection has returned a batch while another open transaction held an
\* eligible deployment
ExclusiveClaimWitness ==
    /\ LastIsPending /\ InTx(ret.w) /\ ret.ids # {}
    /\ \E u \in Workers \ { ret.w } :
         /\ InTx(u)
         /\ \E id \in locks[u] \cap DOMAIN fuota_deployment :
              Launchable(fuota_deployment[id], now)

\* C2 as stated: no persisted update was computed from a version that an
\* update another worker has persisted was computed from.
NoTwoFromSameVersion == \A p \in persisted : p.basis # "dup"

\* C2 as amended: an update computed from a row read under a lock of the
\* transaction that persists it (a due-batch selection or a get for update
\* in that transaction) was computed from the version it replaces.
SequentialUnderLock == \A p \in persisted : p.locked => p.basis = "cur"

\* an update computed under a lock is persisted while another worker holds
\* a copy of the version it was computed from
SequentialUnderLockWitness ==
    \E p \in persisted :
        /\ p.locked /\ p.basis = "cur"
        /\ \E u \in Workers \ { p.w } : read[u][p.id].basis = "dup"

NoGroupNeverReturned ==
    LastIsPending =>
      /\ \A fd \in ret.out : fd.MulticastGroupID # NULL
      /\ \A id \in DOMAIN View(ret.w) :
           View(ret.w)[id].multicast_group_id = NULL => id \notin ret.ids

\* a selection with room in its batch has left out a deployment that is due,
\* not done and not locked, but has no multicast group
NoGroupWitness ==
    /\ LastIsPending /\ Cardinality(ret.ids) < ret.arg
    /\ \E id \in DOMAIN View(ret.w) :
         LET row == View(ret.w)[id]
         IN  /\ row.multicast_group_id = NULL
             /\ row.state # "DONE" /\ row.next_step_after <= ret.at
             /\ \A u \in Workers \ { ret.w } : id \notin locks[u]

NeverBeforeDue ==
    LastIsPending =>
      /\ \A fd \in ret.out : fd.NextStepAfter <= ret.at
      /\ \A id \in ret.ids : View(ret.w)[id].next_step_after <= ret.at

\* a selection with room in its batch has left out a deployment that is not
\* done, linked and not locked, but not yet due
NotYetDueWitness ==
    /\ LastIsPending /\ Cardinality(ret.ids) < ret.arg
    /\ \E id \in DOMAIN View(ret.w) :
         LET row == View(ret.w)[id]
         IN  /\ row.next_step_after > ret.at
             /\ row.state # "DONE" /\ row.multicast_group_id # NULL
             /\ \A u \in Workers \ { ret.w } : id \notin locks[u]

\* C7: a due-batch selection is never kept waiting by the locks of others,
\* returns no error, and returns exactly min(batchSize, k) deployments, k
\* the number of eligible deployments no other transaction has locked; none
\* of them is locked by another transaction.
LockAndSkip ==
    /\ \A w \in Workers, n \in 0..MaxBatch :
         Callable(w) => PendingBatches(w, n) # {}
    /\ LastIsPending =>
         /\ ret.err = NoErr
         /\ Cardinality(ret.out) = Min(ret.arg, Cardinality(Free(ret.w)))
         /\ ret.ids \subseteq Free(ret.w)

\* a selection of batch size 1 has returned a deployment while an eligible
\* one was locked by another transaction
LockAndSkipWitness ==
    /\ LastIsPending /\ ret.arg = 1 /\ Cardinality(ret.ids) = 1
    /\ \E u \in Workers \ { ret.w } :
         \E id \in locks[u] \cap DOMAIN fuota_deployment :
            Launchable(fuota_deployment[id], ret.at) /\ id \notin ret.ids

\* the row a creation has written, as its caller sees it
Created == View(ret.w)[ret.id]

CreatedNow ==
    /\ Created.next_step_after = ret.at
    /\ Created.created_at = ret.at
    /\ Created.updated_at = ret.at

\* C8 as stated: every deployment created is written in the state
\* Multicast-Setup, whatever record the caller passes, with next-eligible-time,
\* created-at and updated-at equal to the creation time.
CreatedInMulticastSetup ==
    LastIsCreated => Created.state = "MC_SETUP" /\ CreatedNow

\* C8 as amended: a deployment is written with next-eligible-time, created-at
\* and updated-at equal to the creation time, in the state Multicast-Setup
\* when the record passed has no State, and in the State passed otherwise.
CreatedInPassedState ==
    LastIsCreated =>
      /\ Created.state = IF ret.state = "" THEN "MC_SETUP" ELSE ret.state
      /\ CreatedNow

\* a record without State has been created after the clock has advanced
CreatedWitness ==
    /\ LastIsCreated /\ ret.state = "" /\ ret.at = MaxTime
    /\ Created.state = "MC_SETUP"

\* C9: right after a successful creation the deployment has exactly one
\* participation record: for the device passed, pending, without error
\* message; the count is 1 and the list is this record.
OnePendingParticipant ==
    LastIsCreated =>
      /\ GetFUOTADeploymentDeviceCount(ret.w, ret.id) = 1
      /\ LET devices == GetFUOTADeploymentDevices(ret.w, ret.id, 10, 0)
         IN  /\ Len(devices) = 1
             /\ devices[1].fuota_deployment_id = ret.id
             /\ devices[1].dev_eui = ret.arg
             /\ devices[1].state = "PENDING"
             /\ devices[1].error_message = ""

\* a deployment has been created while another deployment had its own
\* participation record
OnePendingParticipantWitness ==
    /\ LastIsCreated
    /\ \E dd \in ViewDev(ret.w) : dd.fuota_deployment_id # ret.id

\* the persisted deployments without participation record
Orphans ==
    { id \in DOMAIN fuota_deployment :
        \A dd \in fuota_deployment_device : dd.fuota_deployment_id # id }

\* C10 as stated: no persisted deployment is without its participation
\* record.
AtomicCreation == Orphans = {}

\* the fields of a deployment a caller writes and reads back
WrittenFields(fd) ==
    [ Name |-> fd.Name, MulticastGroupID |-> fd.MulticastGroupID,
      FragmentationMatrix |-> fd.FragmentationMatrix,
      Descriptor |-> fd.Descriptor, Payload |-> fd.Payload,
      FragSize |-> fd.FragSize, Redundancy |-> fd.Redundancy,
      BlockAckDelay |-> fd.BlockAckDelay,
      MulticastTimeout |-> fd.MulticastTimeout,
      UnicastTimeout |-> fd.UnicastTimeout, State |-> fd.State,
      NextStepAfter |-> fd.NextStepAfter ]

\* what creation writes of the struct passed: the state and the
\* next-eligible-time are the function's
CreatedFields(fd) ==
    WrittenFields([ fd EXCEPT
                      !.State = IF fd.State = "" THEN "MC_SETUP" ELSE fd.State,
                      !.NextStepAfter = now ])

\* the row id as a statement sees it that runs on the committed rows dep
\* with the uncommitted rows tx of its transaction
RowOf(dep, tx, id) == IF id \in DOMAIN tx THEN tx[id] ELSE dep[id]

\* C11: what a handle reads of a deployment is what the last successful
\* creation or update visible to it has written: a successful update or
\* creation leaves the row reading as the fields passed; a successful get
\* returns the row as it reads and changes nothing; and a row reads
\* differently only after an update of the caller, an update or a commit
\* another worker has persisted, or the rollback of the caller's own
\* transaction.
RoundTrip ==
    [][ /\ ret'.op = "Update" /\ ret'.err = NoErr =>
             \A w \in Workers, id \in DepIds, fd \in UpdatedInputs :
                w = ret'.w /\ id = ret'.id =>
                  \/ WrittenFields(scanFUOTADeployment(
                         RowOf(fuota_deployment', txDep'[w], id)))
                       = WrittenFields(fd)
                  \/ ~UpdateFUOTADeployment(w, id, fd)
        /\ nextID' # nextID =>
             \A w \in Workers, fd \in CreateInputs, devEUI \in DevEUIs :
                CreateFUOTADeploymentForDevice(w, fd, devEUI, "none") =>
                  WrittenFields(scanFUOTADeployment(
                      RowOf(fuota_deployment', txDep'[w], nextID)))
                    = CreatedFields(fd)
        /\ ret'.op = "Get" /\ ret'.err = NoErr =>
             /\ \A w \in Workers, id \in DepIds :
                  w = ret'.w /\ id = ret'.id =>
                    ret'.out = { scanFUOTADeployment(
                                   RowOf(fuota_deployment, txDep[w], id)) }
             /\ UNCHANGED << fuota_deployment, fuota_deployment_device,
                             txDep, txDev >>
        /\ fuota_deployment' # fuota_deployment \/ txDep' # txDep =>
             \A w \in Workers :
                \A id \in (DOMAIN fuota_deployment \cup DOMAIN txDep[w])
                            \cap (DOMAIN fuota_deployment' \cup DOMAIN txDep'[w]) :
                   RowOf(fuota_deployment', txDep'[w], id)
                       # RowOf(fuota_deployment, txDep[w], id) =>
                     \/ ret'.op = "Update" /\ ret'.err = NoErr /\ ret'.id = id
                        /\ (ret'.w = w \/ ~InTx(ret'.w))
                     \/ \E u \in Workers \ { w } : Commit(u)
                     \/ Rollback(w)
      ]_vars

\* a get has returned the values of an update, written over those of the
\* creation
RoundTripWitness ==
    /\ ret.op = "Get" /\ ret.err = NoErr
    /\ \E fdGet \in ret.out :
         /\ fdGet.Name = "updated deployment"
         /\ fdGet.Descriptor = << 4, 3, 2, 1 >>
         /\ fdGet.Payload = << 1, 2, 1, 2 >>
         /\ fdGet.FragmentationMatrix = 2

\* C12: no step persists, for a deployment, a next-eligible-time earlier than
\* the one persisted before.
NextStepNeverEarlier ==
    [][ \A id \in DOMAIN fuota_deployment :
          fuota_deployment'[id].next_step_after
            >= fuota_deployment[id].next_step_after ]_vars

\* C13: once the persisted state of a deployment is Done, no step persists
\* another state for it.
DoneIsTerminal ==
    [][ \A id \in DOMAIN fuota_deployment :
          fuota_deployment[id].state = "DONE" =>
            fuota_deployment'[id].state = "DONE" ]_vars

\* C14: every persisted change of the state of a deployment goes to the
\* immediate successor of the state in the order of the states, or to Done.
OrderedProgression ==
    [][ \A id \in DOMAIN fuota_deployment :
          LET old == fuota_deployment[id].state
              new == fuota_deployment'[id].state
          IN  new # old =>
                \/ new = "DONE"
                \/ StateIndex(new) = StateIndex(old) + 1 ]_vars

\* C15: every participation record of a deployment whose persisted state is
\* Done is in a terminal state, success or error.
DoneHasNoPending ==
    \A id \in DOMAIN fuota_deployment :
       fuota_deployment[id].state = "DONE" =>
         \A dd \in fuota_deployment_device :
            dd.fuota_deployment_id = id => dd.state \in { "SUCCESS", "ERROR" }

\* C19: UpdateFUOTADeployment for an identifier that matches no deployment
\* the caller can see returns ErrDoesNotExist, and the call changes nothing:
\* no deployment row, committed or of a transaction, is created or modified,
\* no participation record changes, no lock is taken and the transaction of
\* the caller stays open.
NotFoundUpdate ==
    [][ /\ \A w \in Workers, id \in DepIds, fd \in UpdatedInputs :
             ( /\ id \notin DOMAIN fuota_deployment
               /\ id \notin DOMAIN txDep[w]
               /\ UpdateFUOTADeployment(w, id, fd) ) =>
                  /\ ret'.op = "Update" /\ ret'.w = w /\ ret'.id = id
                  /\ ret'.err = ErrDoesNotExist
        /\ ( ret'.op = "Update" /\ ret'.err = ErrDoesNotExist ) =>
             /\ ret'.id \notin DOMAIN fuota_deployment
             /\ ret'.id \notin DOMAIN txDep[ret'.w]
             /\ UNCHANGED << fuota_deployment, fuota_deployment_device, txDep,
                             txDev, txn, locks, nextID >>
      ]_vars

\* an update has returned ErrDoesNotExist for the identifier of a row that
\* the open transaction of another worker has inserted, while the table
\* holds other deployments
NotFoundUpdateWitness ==
    /\ ret.op = "Update" /\ ret.err = ErrDoesNotExist
    /\ fuota_deployment # NoRows
    /\ \E u \in Workers \ { ret.w } : ret.id \in DOMAIN txDep[u]

\* the open transactions other than u's that hold row id
Holders(u, id) == { w \in Workers \ { u } : InTx(w) /\ id \in locks[w] }

\* C20: a deployment is held by at most one open transaction at a time; a
\* get for update of a deployment the caller can see returns exactly when
\* no other open transaction holds it (it waits for the holder to end, and
\* then returns the row, locked for the caller's transaction); a due-batch
\* selection of any size returns no deployment another transaction holds.
HeldByOne ==
    /\ \A id \in DepIds :
         Cardinality({ w \in Workers : id \in locks[w] }) <= 1
    /\ \A w \in Workers : locks[w] # {} => InTx(w) \/ txn[w] = "aborted"
    /\ \A u \in Workers, id \in DepIds :
         ( Callable(u) /\ id \in DOMAIN fuota_deployment
           /\ id \notin DOMAIN txDep[u] ) =>
            /\ ( ENABLED GetFUOTADeployment(u, id, TRUE) ) <=>
                  ( \A w \in Workers \ { u } : id \notin locks[w] )
            /\ Holders(u, id) # {} =>
                  \A batchSize \in 0..MaxBatch :
                     \A S \in PendingBatches(u, batchSize) : id \notin S
    /\ ( ret.op = "Get" /\ ret.forUpdate /\ ret.err = NoErr ) =>
         /\ \A w \in Workers \ { ret.w } : ret.id \notin locks[w]
         /\ InTx(ret.w) => ret.id \in locks[ret.w]

\* a get for update in a transaction has returned a deployment that is due;
\* the other worker, in a transaction of its own, can see the row and has
\* no lock on it
HeldByOneWitness ==
    /\ ret.op = "Get" /\ ret.forUpdate /\ ret.err = NoErr /\ InTx(ret.w)
    /\ ret.id \in DOMAIN fuota_deployment
    /\ Launchable(fuota_deployment[ret.id], now)
    /\ \E u \in Workers \ { ret.w } :
         /\ InTx(u) /\ ret.id \notin DOMAIN txDep[u]
         /\ ~ENABLED GetFUOTADeployment(u, ret.id, TRUE)

\* C18: a due-batch selection whose batch size leaves room for every
\* eligible deployment returns every eligible deployment that is well
\* formed and that no other transaction holds, whether or not another
\* eligible deployment is malformed.
FailureIsolation ==
    ( /\ LastIsPending
      /\ ret.arg >= Cardinality({ id \in DOMAIN View(ret.w) :
                                    Launchable(View(ret.w)[id], now) }) ) =>
       \A id \in Free(ret.w) :
          ScanError(View(ret.w)[id]) = NoErr => id \in ret.ids

\* the participation records of device devEUI in deployment id
RecordsOf(devs, id, devEUI) ==
    { dd \in devs : dd.fuota_deployment_id = id /\ dd.dev_eui = devEUI }

\* C16: a participation record that is success or error keeps its state and
\* its error message in every step, whatever the operation (it never
\* returns to pending); a RecordOutcome for such a record reports it as
\* already terminal and leaves the records as they are.
OutcomeSetOnce ==
    [][ /\ \A dd \in fuota_deployment_device :
             dd.state # "PENDING" =>
                \A de \in RecordsOf(fuota_deployment_device',
                                    dd.fuota_deployment_id, dd.dev_eui) :
                   de.state = dd.state /\ de.error_message = dd.error_message
        /\ \A dd \in fuota_deployment_device :
             RecordsOf(fuota_deployment_device', dd.fuota_deployment_id,
                       dd.dev_eui) # {}
        /\ ret'.op = "RecordOutcome" =>
             LET rows == RecordsOf(fuota_deployment_device, ret'.id, ret'.arg)
             IN  ( \E dd \in rows : dd.state # "PENDING" ) =>
                    /\ ret'.err = ErrAlreadyTerminal
                    /\ UNCHANGED fuota_deployment_device
      ]_vars

\* a second RecordOutcome has been refused for a record that is success, in
\* a deployment the scheduler has since ended
OutcomeSetOnceWitness ==
    /\ ret.op = "RecordOutcome" /\ ret.err = ErrAlreadyTerminal
    /\ ret.id \in DOMAIN fuota_deployment
    /\ fuota_deployment[ret.id].state = "DONE"
    /\ \E dd \in RecordsOf(fuota_deployment_device, ret.id, ret.arg) :
         dd.state = "SUCCESS"

\* C17: a failed step that does not reach the retry ceiling leaves the
\* deployment in its state, due later than before and later than the
\* failure, and counts one more consecutive failure; the failed step that
\* reaches the ceiling ends the deployment as Done with none of its
\* participation records pending, those that were pending marked error; a
\* step that succeeds moves to the next state and ends the count. With
\* workers that keep running cycles, every deployment linked to a multicast
\* group is eventually Done, whatever the outcomes of its steps.
BoundedRetry ==
    /\ [][ ret'.op = "Cycle" =>
             \A r \in ret'.out :
                LET old == fuota_deployment[r.id]
                    new == fuota_deployment'[r.id]
                    devs == { dd \in fuota_deployment_device :
                                dd.fuota_deployment_id = r.id }
                IN  /\ r.outcome = "retry" =>
                         IF retries[r.id] + 1 < RetryCeiling
                         THEN /\ new.state = old.state
                              /\ new.next_step_after > old.next_step_after
                              /\ new.next_step_after > now
                              /\ retries'[r.id] = retries[r.id] + 1
                         ELSE /\ new.state = "DONE"
                              /\ \A dd \in devs :
                                   \A de \in RecordsOf(fuota_deployment_device',
                                                       r.id, dd.dev_eui) :
                                      /\ de.state # "PENDING"
                                      /\ dd.state = "PENDING" =>
                                            de.state = "ERROR"
                    /\ r.outcome = "advance" =>
                         /\ StateIndex(new.state) = StateIndex(old.state) + 1
                         /\ retries'[r.id] = 0
         ]_vars
    /\ [](\A id \in DepIds : retries[id] < RetryCeiling)
    /\ \A id \in DepIds :
         ( /\ id \in DOMAIN fuota_deployment
           /\ fuota_deployment[id].multicast_group_id # NULL )
         ~> ( /\ id \in DOMAIN fuota_deployment
              /\ fuota_deployment[id].state = "DONE" )

\* a deployment that had passed its first step has been ended by a failed
\* step at the retry ceiling, its pending record marked error
BoundedRetryWitness ==
    /\ ret.op = "Cycle"
    /\ \E r \in ret.out :
         /\ r.outcome = "retry"
         /\ fuota_deployment[r.id].state = "DONE"
         /\ \E dd \in fuota_deployment_device :
              /\ dd.fuota_deployment_id = r.id
              /\ dd.state = "ERROR" /\ dd.error_message = "timeout"
====
